---- MODULE Spec2Model ----
(***************************************************************************)
(* BWFillRepeater (src/module.py): a GNU Radio sync block that sums        *)
(* frequency-shifted copies of its complex input.                          *)
(*                                                                         *)
(* Python floats are IEEE-754 binary64.  A binary64 value is modelled as a *)
(* record [kind, sign, exp, mant]: for kind "num" the value is             *)
(*    sign * mant * 2^exp                                                  *)
(* where mant is a natural number of exactly Precision bits, written as a  *)
(* sequence of limbs in base LimbBase, least significant limb first.       *)
(* Every arithmetic operation rounds to nearest, ties to even, as the      *)
(* hardware does.                                                          *)
(***************************************************************************)
EXTENDS Integers, Sequences, FiniteSets

Precision == 53
LimbBits == 15
LimbBase == 2^LimbBits

Abs(a) == IF a < 0 THEN -a ELSE a
Sgn(a) == IF a < 0 THEN -1 ELSE IF a > 0 THEN 1 ELSE 0
Max(a, b) == IF a >= b THEN a ELSE b
Min(a, b) == IF a <= b THEN a ELSE b

\* ---- natural numbers of arbitrary size, as limb sequences ----

RECURSIVE BigStrip(_)
BigStrip(x) ==
  IF x # <<>> /\ x[Len(x)] = 0 THEN BigStrip(SubSeq(x, 1, Len(x) - 1)) ELSE x

RECURSIVE BigFromNat(_)
BigFromNat(n) ==
  IF n = 0 THEN <<>> ELSE <<n % LimbBase>> \o BigFromNat(n \div LimbBase)

\* x * m + carry, for 0 <= m <= LimbBase
RECURSIVE BigMulSmall(_, _, _)
BigMulSmall(x, m, carry) ==
  IF x = <<>> THEN BigFromNat(carry)
  ELSE LET v == x[1] * m + carry
       IN  <<v % LimbBase>> \o BigMulSmall(Tail(x), m, v \div LimbBase)

\* quotient and remainder of (rem * LimbBase^Len(x) + x) by d, 0 < d <= LimbBase
RECURSIVE BigDivSmall(_, _, _)
BigDivSmall(x, d, rem) ==
  IF x = <<>> THEN [quot |-> <<>>, rem |-> rem]
  ELSE LET v    == rem * LimbBase + x[Len(x)]
           rest == BigDivSmall(SubSeq(x, 1, Len(x) - 1), d, v % d)
       IN  [quot |-> Append(rest.quot, v \div d), rem |-> rest.rem]

BigPad(x, k) == x \o [j \in 1..(k - Len(x)) |-> 0]

RECURSIVE BigAddEq(_, _, _)
BigAddEq(x, y, carry) ==
  IF x = <<>> THEN BigFromNat(carry)
  ELSE LET v == x[1] + y[1] + carry
       IN  <<v % LimbBase>> \o BigAddEq(Tail(x), Tail(y), v \div LimbBase)

BigAdd(x, y) ==
  LET k == Max(Len(x), Len(y)) IN BigStrip(BigAddEq(BigPad(x, k), BigPad(y, k), 0))

\* x - y - borrow for x >= y
RECURSIVE BigSubEq(_, _, _)
BigSubEq(x, y, borrow) ==
  IF x = <<>> THEN <<>>
  ELSE LET v == x[1] - y[1] - borrow
       IN  <<IF v < 0 THEN v + LimbBase ELSE v>>
             \o BigSubEq(Tail(x), Tail(y), IF v < 0 THEN 1 ELSE 0)

BigSub(x, y) ==
  LET k == Max(Len(x), Len(y)) IN BigStrip(BigSubEq(BigPad(x, k), BigPad(y, k), 0))

\* -1, 0, 1 as x < y, x = y, x > y, on sequences of equal length
RECURSIVE BigCmpEq(_, _)
BigCmpEq(x, y) ==
  IF x = <<>> THEN 0
  ELSE LET k == Len(x)
       IN  IF x[k] # y[k] THEN (IF x[k] < y[k] THEN -1 ELSE 1)
           ELSE BigCmpEq(SubSeq(x, 1, k - 1), SubSeq(y, 1, k - 1))

BigCmp(x, y) ==
  LET k == Max(Len(x), Len(y)) IN BigCmpEq(BigPad(x, k), BigPad(y, k))

\* x * 2^s
BigShl(x, s) ==
  BigStrip([j \in 1..(s \div LimbBits) |-> 0]
             \o BigMulSmall(x, 2^(s % LimbBits), 0))

\* floor(x / 2^s), and whether any non-zero bit was shifted out
BigShr(x, s) ==
  LET w    == Min(s \div LimbBits, Len(x))
      low  == SubSeq(x, 1, w)
      high == SubSeq(x, w + 1, Len(x))
      d    == BigDivSmall(high, 2^(s % LimbBits), 0)
  IN  [quot |-> BigStrip(d.quot),
       lost |-> d.rem # 0 \/ \E j \in 1..w : low[j] # 0]

\* number of binary digits of n, 0 <= n < LimbBase
SmallBitLen(n) == CHOOSE k \in 0..LimbBits : 2^k > n /\ (k = 0 \/ 2^(k - 1) <= n)

BigBitLen(x) ==
  IF x = <<>> THEN 0 ELSE (Len(x) - 1) * LimbBits + SmallBitLen(x[Len(x)])

BigOdd(x) == x # <<>> /\ x[1] % 2 = 1

\* ---- binary64 ----

FZero == [kind |-> "zero", sign |-> 0, exp |-> 0, mant |-> <<>>]
FNaN == [kind |-> "nan", sign |-> 0, exp |-> 0, mant |-> <<>>]
FInf(s) == [kind |-> "inf", sign |-> s, exp |-> 0, mant |-> <<>>]
IsFinite(x) == x.kind \in {"zero", "num"}

\* round sign * x * 2^e (plus a non-zero tail below the last bit when
\* sticky) to Precision bits: to nearest, ties to even
RoundBits(s, x, e, sticky) ==
  LET len == BigBitLen(x)
  IN  IF len = 0 THEN FZero
      ELSE IF len <= Precision
      THEN [kind |-> "num", sign |-> s, exp |-> e - (Precision - len),
            mant |-> BigShl(x, Precision - len)]
      ELSE LET drop == len - Precision
               q2   == BigShr(x, drop - 1)
               rnd  == BigOdd(q2.quot)
               keep == BigShr(q2.quot, 1).quot
               up   == rnd /\ (sticky \/ q2.lost \/ BigOdd(keep))
               inc  == BigAdd(keep, <<1>>)
           IN  IF ~up
               THEN [kind |-> "num", sign |-> s, exp |-> e + drop, mant |-> keep]
               ELSE IF BigBitLen(inc) = Precision
               THEN [kind |-> "num", sign |-> s, exp |-> e + drop, mant |-> inc]
               ELSE [kind |-> "num", sign |-> s, exp |-> e + drop + 1,
                     mant |-> BigShr(inc, 1).quot]

\* enough fractional bits for a quotient of at least Precision + 2 digits
\* when the divisor is below LimbBase
DivScale == Precision + 2 + LimbBits

\* float(a) / float(b) for integers a and b, |b| < LimbBase; a zero divisor
\* gives what numpy gives (inf, nan)
FDiv(a, b) ==
  IF b = 0 THEN (IF a = 0 THEN FNaN ELSE FInf(Sgn(a)))
  ELSE IF a = 0 THEN FZero
  ELSE LET d == BigDivSmall(BigShl(BigFromNat(Abs(a)), DivScale), Abs(b), 0)
       IN  RoundBits(Sgn(a) * Sgn(b), BigStrip(d.quot), -DivScale, d.rem # 0)

FromInt(a) == FDiv(a, 1)

\* float(m) * x for an integer m, |m| <= LimbBase
FMulInt(m, x) ==
  IF x.kind = "nan" THEN FNaN
  ELSE IF x.kind = "inf" THEN (IF m = 0 THEN FNaN ELSE FInf(Sgn(m) * x.sign))
  ELSE IF m = 0 \/ x.kind = "zero" THEN FZero
  ELSE RoundBits(Sgn(m) * x.sign, BigStrip(BigMulSmall(x.mant, Abs(m), 0)),
                 x.exp, FALSE)

\* x + y
FAdd(x, y) ==
  IF x.kind = "nan" \/ y.kind = "nan" THEN FNaN
  ELSE IF x.kind = "inf"
  THEN (IF y.kind = "inf" /\ y.sign # x.sign THEN FNaN ELSE x)
  ELSE IF y.kind = "inf" THEN y
  ELSE IF x.kind = "zero" THEN y
  ELSE IF y.kind = "zero" THEN x
  ELSE LET e  == Min(x.exp, y.exp)
           xb == BigShl(x.mant, x.exp - e)
           yb == BigShl(y.mant, y.exp - e)
           c  == BigCmp(xb, yb)
       IN  IF x.sign = y.sign THEN RoundBits(x.sign, BigAdd(xb, yb), e, FALSE)
           ELSE IF c = 0 THEN FZero
           ELSE IF c > 0 THEN RoundBits(x.sign, BigSub(xb, yb), e, FALSE)
           ELSE RoundBits(y.sign, BigSub(yb, xb), e, FALSE)

FNeg(x) == [x EXCEPT !.sign = -x.sign]

\* x >= y on finite values
FGe(x, y) == FAdd(x, FNeg(y)).sign >= 0

\* ---- bounds ----

MaxBw == 4
MaxRate == 3
MaxBlock == 3
MaxIdx == 4
PlanMaxBw == 29
PlanMaxIn == 4

BwArgs == -1..MaxBw
OutBwArgs == 0..MaxBw
RateArgs == 0..MaxRate
BlockLengths == 0..MaxBlock

VARIABLES
  input_bw, output_bw, samp_rate,   \* self.input_bw, self.output_bw, self.samp_rate
  num_copies, shift_spacing,        \* self.num_copies, self.shift_spacing
  sample_idx,                       \* self.sample_idx
  in0, out, ret,                    \* input_items[0], output_items[0], work's return value
  printed,                          \* the lines the latest call wrote to stdout
  call,                             \* the latest call: operation, argument, sample_idx on entry
  consumed,                         \* number of samples the scheduler has handed to work
  segStart, segIn, segOut,          \* since the plan last changed: sample_idx then, input, output
  set_pc, set_arg,                  \* position and argument of a set_input_bandwidth in progress
  work_pc, w_t, w_n, w_i, w_ss      \* position and locals of a work in progress

config == <<input_bw, output_bw, samp_rate>>
plan == <<num_copies, shift_spacing>>
buffers == <<in0, out, ret>>
history == <<consumed, segStart, segIn, segOut>>
setter == <<set_pc, set_arg>>
worker == <<work_pc, w_t, w_n, w_i, w_ss>>
vars == <<config, plan, sample_idx, buffers, printed, call, history, setter, worker>>

\* ---- the replication plan (lines 28-29, 36-37) ----

\* Python's a // b
FloorDiv(a, b) == IF b > 0 THEN a \div b ELSE (-a) \div (-b)

NumCopiesOffByOne(obw, ibw) == Max(1, FloorDiv(obw, ibw) + 1)
\* max(1, int(self.output_bw // self.input_bw))
NumCopies(obw, ibw) == Max(1, FloorDiv(obw, ibw))

SpacingFloorDiv(obw, nc) == FromInt(FloorDiv(obw, nc))
\* self.output_bw / self.num_copies
Spacing(obw, nc) == FDiv(obw, nc)

\* ---- work (lines 40-70) ----

\* a complex sample is the sequence of the products added into it, in
\* order; <<>> is 0.  A product is in0[k] * exp(2j*pi*freq*t), kept
\* unevaluated.
Product(x, freq, t) == [x |-> x, freq |-> freq, t |-> t]
Stale == <<Product(0, FZero, FZero)>>
ZeroSample == <<>>

\* np.zeros(num_samples, dtype=np.complex64)
NpZeros(n) == [k \in 1..n |-> ZeroSample]

\* out[:] = values
AssignAll(buf, values) == [k \in 1..Len(buf) |-> values[k]]

TimeVectorFromZero(idx, n, rate) == [k \in 1..n |-> FDiv(k - 1, rate)]
\* np.arange(self.sample_idx, self.sample_idx + num_samples) / self.samp_rate
TimeVector(idx, n, rate) == [k \in 1..n |-> FDiv(idx + k - 1, rate)]

FreqShiftCentred(obw, i, spacing) == FAdd(FDiv(-obw, 2), FMulInt(i, spacing))
\* -self.output_bw / 1 + i * self.shift_spacing
FreqShift(obw, i, spacing) == FAdd(FDiv(-obw, 1), FMulInt(i, spacing))

\* out += in0 * mixer, with mixer = np.exp(2j * np.pi * freq_shift * t)
MixInto(buf, inp, freq, t) ==
  [k \in 1..Len(buf) |-> Append(buf[k], Product(inp[k], freq, t[k]))]

\* for i in range(n): the iterations i, i + 1, ..., n - 1
RECURSIVE MixLoop(_, _, _, _, _, _, _)
MixLoop(buf, inp, t, obw, spacing, i, n) ==
  IF i >= n THEN buf
  ELSE MixLoop(MixInto(buf, inp, FreqShift(obw, i, spacing), t),
               inp, t, obw, spacing, i + 1, n)

\* the output buffer of one work call that starts with cursor idx
WorkOutput(buf, inp, idx, rate, obw, nc, spacing) ==
  MixLoop(AssignAll(buf, NpZeros(Len(inp))), inp,
          TimeVector(idx, Len(inp), rate), obw, spacing, 0, nc)

CursorRestart(idx, n) == n
\* self.sample_idx += num_samples
CursorAfter(idx, n) == idx + n

ReturnCopies(buf, nc) == nc
\* return len(out)
ReturnCount(buf, nc) == Len(buf)

\* ---- construction (lines 8-30) ----

Construct(ibw, obw, rate) ==
  /\ ibw # 0              \* self.output_bw // 0 raises ZeroDivisionError
  /\ input_bw = ibw
  /\ output_bw = obw
  /\ samp_rate = rate
  /\ num_copies = NumCopies(obw, ibw)
  /\ shift_spacing = Spacing(obw, NumCopies(obw, ibw))
  /\ sample_idx = 0
  /\ in0 = <<>> /\ out = <<>> /\ ret = 0
  /\ printed = <<>>
  /\ call = [op |-> "init", arg |-> 0, cursor |-> 0]
  /\ consumed = 0 /\ segStart = 0 /\ segIn = <<>> /\ segOut = <<>>
  /\ set_pc = "idle" /\ set_arg = 0
  /\ work_pc = "idle" /\ w_t = <<>> /\ w_n = 0 /\ w_i = 0 /\ w_ss = FZero

Init == \E ibw \in BwArgs, obw \in OutBwArgs, rate \in RateArgs : Construct(ibw, obw, rate)

\* ---- calls that run to completion, one at a time ----

Notification == [bw |-> input_bw', copies |-> num_copies', spacing |-> shift_spacing']

SetInputBandwidthAnySign(bw) ==
  /\ set_pc = "idle" /\ work_pc = "idle"
  /\ call' = [op |-> "set", arg |-> bw, cursor |-> sample_idx]
  /\ IF bw # 0
     THEN /\ input_bw' = bw
          /\ num_copies' = NumCopies(output_bw, bw)
          /\ shift_spacing' = Spacing(output_bw, num_copies')
          /\ printed' = <<Notification>>
          /\ segStart' = sample_idx /\ segIn' = <<>> /\ segOut' = <<>>
     ELSE /\ UNCHANGED <<input_bw, plan, segStart, segIn, segOut>>
          /\ printed' = <<>>
  /\ UNCHANGED <<output_bw, samp_rate, sample_idx, buffers, consumed, setter, worker>>

\* set_input_bandwidth(bw), lines 32-38
SetInputBandwidth(bw) ==
  /\ set_pc = "idle" /\ work_pc = "idle"
  /\ call' = [op |-> "set", arg |-> bw, cursor |-> sample_idx]
  /\ IF bw > 0
     THEN /\ input_bw' = bw
          /\ num_copies' = NumCopies(output_bw, input_bw')
          /\ shift_spacing' = Spacing(output_bw, num_copies')
          /\ printed' = <<Notification>>
          /\ segStart' = sample_idx /\ segIn' = <<>> /\ segOut' = <<>>
     ELSE /\ UNCHANGED <<input_bw, plan, segStart, segIn, segOut>>
          /\ printed' = <<>>
  /\ UNCHANGED <<output_bw, samp_rate, sample_idx, buffers, consumed, setter, worker>>

\* the scheduler's output buffer on entry: whatever was there before
HostBuffer(n) == [k \in 1..n |-> Stale]

\* The next n samples of the input stream.  work never looks into a sample,
\* it only multiplies and adds it, so each sample stands for itself: the
\* p-th sample of the stream is written p, and 0 is no sample of the stream.
StreamBlock(n) == [k \in 1..n |-> consumed + k]

\* work(input_items, output_items), lines 40-70, on the next n samples
Work(n) ==
  LET block == StreamBlock(n) IN
  /\ set_pc = "idle" /\ work_pc = "idle"
  /\ sample_idx + Len(block) <= MaxIdx
  /\ out' = WorkOutput(HostBuffer(Len(block)), block, sample_idx, samp_rate,
                       output_bw, num_copies, shift_spacing)
  /\ in0' = block
  /\ sample_idx' = CursorAfter(sample_idx, Len(block))
  /\ ret' = ReturnCount(out', num_copies)
  /\ printed' = <<>>
  /\ call' = [op |-> "work", arg |-> Len(block), cursor |-> sample_idx]
  /\ consumed' = consumed + Len(block)
  /\ segIn' = segIn \o block
  /\ segOut' = segOut \o out'
  /\ UNCHANGED <<config, plan, segStart, setter, worker>>

Next ==
  \/ \E bw \in BwArgs : SetInputBandwidth(bw)
  \/ \E n \in BlockLengths : Work(n)

Spec == Init /\ [][Next]_vars

\* ---- the plan alone, over bandwidths wide enough for rounding to show ----

PlanInit ==
  \E ibw \in -1..PlanMaxIn, obw \in 0..PlanMaxBw : Construct(ibw, obw, 1)

PlanNext == \E bw \in -1..PlanMaxIn : SetInputBandwidth(bw)

SpecPlan == PlanInit /\ [][PlanNext]_vars

\* ---- the same two methods, statement by statement, on two threads ----
\* The scheduler's thread runs work; the thread that owns the flowgraph
\* calls set_input_bandwidth.  Nothing in the class serialises them, so the
\* interpreter may switch threads between any two statements.

\* line 34: the test; a rejected argument returns at once
SetEnter(bw) ==
  /\ set_pc = "idle"
  /\ set_arg' = bw
  /\ set_pc' = IF bw > 0 THEN "l35" ELSE "idle"
  /\ printed' = <<>>
  /\ UNCHANGED <<config, plan, sample_idx, buffers, call, history, worker>>

\* line 35
SetStoreBandwidth ==
  /\ set_pc = "l35"
  /\ input_bw' = set_arg
  /\ set_pc' = "l36"
  /\ UNCHANGED <<output_bw, samp_rate, plan, sample_idx, buffers, printed, call,
                 history, set_arg, worker>>

\* line 36
SetStoreCopies ==
  /\ set_pc = "l36"
  /\ num_copies' = NumCopies(output_bw, input_bw)
  /\ set_pc' = "l37"
  /\ UNCHANGED <<config, shift_spacing, sample_idx, buffers, printed, call,
                 history, set_arg, worker>>

\* line 37
SetStoreSpacing ==
  /\ set_pc = "l37"
  /\ shift_spacing' = Spacing(output_bw, num_copies)
  /\ set_pc' = "l38"
  /\ UNCHANGED <<config, num_copies, sample_idx, buffers, printed, call,
                 history, set_arg, worker>>

\* line 38
SetPrint ==
  /\ set_pc = "l38"
  /\ printed' = <<[bw |-> input_bw, copies |-> num_copies, spacing |-> shift_spacing]>>
  /\ set_pc' = "idle"
  /\ UNCHANGED <<config, plan, sample_idx, buffers, call, history, set_arg, worker>>

\* lines 42-52: the buffers, the time vector, and range(self.num_copies)
WorkEnter(n) ==
  LET block == StreamBlock(n) IN
  /\ work_pc = "idle"
  /\ sample_idx + Len(block) <= MaxIdx
  /\ in0' = block
  /\ out' = AssignAll(HostBuffer(Len(block)), NpZeros(Len(block)))
  /\ w_t' = TimeVector(sample_idx, Len(block), samp_rate)
  /\ w_n' = num_copies
  /\ w_i' = 0
  /\ work_pc' = "loop"
  /\ consumed' = consumed + n
  /\ UNCHANGED <<config, plan, sample_idx, ret, printed, call, segStart, segIn,
                 segOut, setter, w_ss>>

\* lines 54-60: one iteration of the loop
WorkIterate ==
  /\ work_pc = "loop" /\ w_i < w_n
  /\ w_ss' = shift_spacing
  /\ out' = MixInto(out, in0, FreqShift(output_bw, w_i, shift_spacing), w_t)
  /\ w_i' = w_i + 1
  /\ UNCHANGED <<config, plan, sample_idx, in0, ret, printed, call, history,
                 setter, work_pc, w_t, w_n>>

\* lines 67-70
WorkReturn ==
  /\ work_pc = "loop" /\ w_i >= w_n
  /\ sample_idx' = CursorAfter(sample_idx, Len(in0))
  /\ ret' = ReturnCount(out, num_copies)
  /\ work_pc' = "idle"
  /\ UNCHANGED <<config, plan, in0, out, printed, call, history, setter,
                 w_t, w_n, w_i, w_ss>>

NextConc ==
  \/ \E bw \in BwArgs : SetEnter(bw)
  \/ SetStoreBandwidth
  \/ SetStoreCopies
  \/ SetStoreSpacing
  \/ SetPrint
  \/ \E n \in BlockLengths : WorkEnter(n)
  \/ WorkIterate
  \/ WorkReturn

SpecConc == Init /\ [][NextConc]_vars

\* ---- properties ----

\* |np.exp(2j * np.pi * freq * t)| = 1 exactly when the phase is finite;
\* an infinite or NaN time makes every component of the mixer NaN
UnitMagnitude(p) == IsFinite(p.freq) /\ IsFinite(p.t)

\* C1: whenever the stored input_bw and output_bw are positive, num_copies
\* is max(1, floor(output_bw / input_bw)) of the stored values: the plan is
\* never stale, whatever calls came before.
CopyCountFormula ==
  (input_bw > 0 /\ output_bw > 0) =>
     \/ num_copies = 1 /\ output_bw < 2 * input_bw
     \/ /\ num_copies >= 1
        /\ num_copies * input_bw <= output_bw
        /\ output_bw < (num_copies + 1) * input_bw

CopyCountWitness ==
  /\ call.op = "set" /\ call.arg > 0
  /\ consumed > 0
  /\ output_bw >= 2 * input_bw /\ num_copies >= 2

\* C2: a set_input_bandwidth call with an argument <= 0 changes neither
\* input_bw, num_copies, shift_spacing nor sample_idx, and prints nothing.
RejectedUpdateIsNoOp ==
  [][(call'.op = "set" /\ call'.arg <= 0) =>
       /\ UNCHANGED <<input_bw, num_copies, shift_spacing, sample_idx>>
       /\ printed' = <<>>]_vars

RejectedUpdateWitness ==
  /\ call.op = "set" /\ call.arg <= 0
  /\ consumed > 0 /\ num_copies >= 2

\* C3: the cursor starts at 0 and always equals the number of samples
\* handed to work so far; no step decreases it and set_input_bandwidth
\* leaves it alone.
CursorCountsSamples ==
  /\ [](sample_idx = consumed)
  /\ [][/\ sample_idx' >= sample_idx
        /\ call'.op = "set" => sample_idx' = sample_idx]_vars

CursorWitness ==
  /\ call.op = "set"
  /\ Len(in0) = 1 /\ sample_idx >= 2

\* C4: after a work call on n samples the output block has n positions,
\* none of them still holding what the scheduler's buffer held before, and
\* the call returned n.
NotStale(sample) == sample = <<>> \/ sample[1].x # 0

LengthPreserved ==
  call.op = "work" =>
     /\ Len(in0) = call.arg
     /\ Len(out) = call.arg
     /\ ret = call.arg
     /\ \A k \in 1..call.arg : NotStale(out[k])

LengthWitness ==
  /\ call.op = "work" /\ call.arg = 0
  /\ consumed > 0

\* C5: after a work call that started with cursor c, output sample k is
\* the sum, over i = 0 .. num_copies - 1 in that order, of
\* in0[k] * mixer(-output_bw + i * shift_spacing, (c + k) / samp_rate),
\* and nothing else: no old buffer content, no division by num_copies.
SumOfMixedCopies ==
  call.op = "work" =>
     \A k \in 1..Len(in0) :
        out[k] = [i \in 1..num_copies |->
                    Product(in0[k],
                            FAdd(FromInt(-output_bw), FMulInt(i - 1, shift_spacing)),
                            FDiv(call.cursor + k - 1, samp_rate))]

SumWitness ==
  /\ call.op = "work" /\ call.cursor > 0
  /\ Len(in0) >= 2 /\ num_copies >= 2

\* C6: every iteration of work's loop uses a shift_spacing that belongs to
\* the num_copies its loop was started with.
PlanReadConsistently ==
  (work_pc = "loop" /\ w_i > 0) => w_ss = FDiv(output_bw, w_n)

\* C7 as stated: num_copies * shift_spacing = output_bw (the product
\* evaluated as Python evaluates it), and shift_spacing >= input_bw
\* whenever output_bw >= input_bw > 0.
SpacingTimesCopiesExact ==
  /\ FMulInt(num_copies, shift_spacing) = FromInt(output_bw)
  /\ (output_bw >= input_bw /\ input_bw > 0) => FGe(shift_spacing, FromInt(input_bw))

\* C7 as amended: shift_spacing is the binary64 value nearest to
\* output_bw / num_copies, so num_copies * shift_spacing is within
\* num_copies half-units in the last place of output_bw, and equals it when
\* num_copies divides output_bw; shift_spacing >= input_bw whenever
\* output_bw >= input_bw > 0.
SpacingCorrectlyRounded ==
  /\ shift_spacing.sign = Sgn(output_bw)
  /\ output_bw # 0 =>
       LET scaled  == BigShl(BigFromNat(Abs(output_bw)), -shift_spacing.exp)
           product == BigStrip(BigMulSmall(shift_spacing.mant, num_copies, 0))
           err     == IF BigCmp(product, scaled) >= 0
                      THEN BigSub(product, scaled) ELSE BigSub(scaled, product)
       IN  /\ shift_spacing.kind = "num"
           /\ BigBitLen(shift_spacing.mant) = Precision
           /\ BigCmp(BigMulSmall(err, 2, 0), BigFromNat(num_copies)) <= 0
           /\ output_bw % num_copies = 0 => err = <<>>
  /\ (output_bw >= input_bw /\ input_bw > 0) => FGe(shift_spacing, FromInt(input_bw))

SpacingWitness ==
  /\ call.op = "set" /\ call.arg > 0
  /\ output_bw >= input_bw
  /\ FMulInt(num_copies, shift_spacing) # FromInt(output_bw)

\* C8: the stored input_bw, output_bw and samp_rate are all positive.
ConfigurationPositive == input_bw > 0 /\ output_bw > 0 /\ samp_rate > 0

\* C9: when num_copies = 1, shift_spacing = output_bw, and a work call
\* leaves in each output sample the one product of the input sample with a
\* unit-magnitude mixer of frequency -output_bw.
SingleCopyIdentity ==
  num_copies = 1 =>
     /\ shift_spacing = FromInt(output_bw)
     /\ call.op = "work" =>
          \A k \in 1..Len(in0) :
             /\ Len(out[k]) = 1
             /\ out[k][1].x = in0[k]
             /\ out[k][1].freq = FromInt(-output_bw)
             /\ UnitMagnitude(out[k][1])

\* C10: the output of the work calls made since the plan last changed,
\* block after block, is the output of one work call on all their input at
\* once, and the cursor is where that one call would leave it.
PartitionInvariance ==
  /\ segOut = WorkOutput(HostBuffer(Len(segIn)), segIn, segStart,
                         samp_rate, output_bw, num_copies, shift_spacing)
  /\ sample_idx = CursorAfter(segStart, Len(segIn))

PartitionWitness ==
  /\ call.op = "work"
  /\ Len(in0) > 0 /\ Len(segIn) > Len(in0)
  /\ segStart > 0
====
